---- MODULE Spec2Model ----
(***************************************************************************)
(* MiniFleet backend (backend/server.py): the table of Docker engine       *)
(* connections (docker_clients, default_client), the persisted engine      *)
(* descriptors (docker_servers collection), the notification collection,   *)
(* and the HTTP handlers that read and change them.                        *)
(*                                                                         *)
(* One action is one complete handler call.  An engine is a host; a call   *)
(* to an engine either answers or raises, which is an input of the action. *)
(***************************************************************************)
EXTENDS Integers, Sequences, FiniteSets, TLC

\* ---------------------------------------------------------------- bounds
\* Connections ever opened in one run of the process.
MaxConns == 4
\* Notification records appended in one run of the process.
MaxNotes == 2

\* ------------------------------------------------------------ value sets
\* Engine ids a request may name.
Ids == {"local", "a", "b"}
\* Remote engine hosts (host:port of a DockerServer).
Hosts == {"h1", "h2"}
\* What docker.from_env() connects to.
LocalHost == "unix"
AllHosts == Hosts \cup {LocalHost}

\* Python's None for a client.
None == [n |-> 0, host |-> "none"]

\* A port/volume/environment entry is a string: a sequence of characters.
PortEntryOk == <<"8", ":", "9">>
PortEntryBad == <<"8", "9">>
PortEntryTwo == <<"7", ":", "6", ":", "5">>
PortLists ==
    {<< >>, <<PortEntryOk>>, <<PortEntryBad, PortEntryOk>>,
     <<PortEntryTwo, PortEntryBad>>}
VolumeLists == {<<<<"v", ":", "w">>, <<"v">>>>}
EnvLists == {<<<<"K", "=", "1">>, <<"K">>>>}
Names == {"web"}
ImageRef == <<"nginx", "1">>
ContainerIds == {"c1"}
\* str(e) of an exception raised by containers.run
RunErrors == {"conflict"}

\* Snapshots container.stats() may answer.  Each document and each field of
\* it is present or absent.
CurUsageDocs ==
    {a @@ b : a \in {<< >>, [total_usage |-> 3]},
              b \in {<< >>, [percpu_usage |-> <<1, 1>>]}}
PreUsageDocs == {<< >>, [total_usage |-> 1]}
CurCpuDocs ==
    {a @@ b : a \in {<< >>} \cup {[cpu_usage |-> u] : u \in CurUsageDocs},
              b \in {<< >>, [system_cpu_usage |-> 7]}}
PreCpuDocs ==
    {a @@ b : a \in {<< >>} \cup {[cpu_usage |-> u] : u \in PreUsageDocs},
              b \in {<< >>} \cup {[system_cpu_usage |-> y] : y \in {4, 7, 9}}}
MemoryDocs == {[usage |-> 1, limit |-> 0], [usage |-> 1, limit |-> 3]}
NetworkDocs == {[eth0 |-> [rx_bytes |-> 1, tx_bytes |-> 2], eth1 |-> [rx_bytes |-> 4]]}
BlkioDocs ==
    {[io_service_bytes_recursive |->
        <<[op |-> "Read", value |-> 2], [op |-> "Write", value |-> 3],
          [op |-> "Sync", value |-> 5], [op |-> "Read", value |-> 1]>>]}
Snapshots ==
    {c @@ p @@ m @@ n @@ b :
        c \in {<< >>} \cup {[cpu_stats |-> d] : d \in CurCpuDocs},
        p \in {<< >>} \cup {[precpu_stats |-> d] : d \in PreCpuDocs},
        m \in {<< >>} \cup {[memory_stats |-> d] : d \in MemoryDocs},
        n \in {<< >>} \cup {[networks |-> d] : d \in NetworkDocs},
        b \in {<< >>} \cup {[blkio_stats |-> d] : d \in BlkioDocs}}
\* A snapshot with every document and field.
StatsFull ==
    [cpu_stats |-> [cpu_usage |-> [total_usage |-> 3, percpu_usage |-> <<1, 1>>],
                    system_cpu_usage |-> 7],
     precpu_stats |-> [cpu_usage |-> [total_usage |-> 1], system_cpu_usage |-> 4],
     memory_stats |-> [usage |-> 1, limit |-> 3],
     networks |-> [eth0 |-> [rx_bytes |-> 1, tx_bytes |-> 2], eth1 |-> [rx_bytes |-> 4]]]

\* Images images.list() may answer: untagged, one tag, two tags.
MaxImages == 2
Sentinel == "<none>:<none>"
Images ==
    {[id |-> "i1", tags |-> << >>],
     [id |-> "i2", tags |-> <<"nginx:1">>],
     [id |-> "i3", tags |-> <<"app:1", "app:2">>]}
\* The engine lists each image once.
ImageLists ==
    {l \in UNION {[1..n -> Images] : n \in 0..MaxImages} :
        \A i, j \in DOMAIN l : i # j => l[i].id # l[j].id}
ImagesFull == <<[id |-> "i3", tags |-> <<"app:1", "app:2">>], [id |-> "i1", tags |-> << >>]>>
\* What containers.list(all=True) answers, by container id.
ContainersFull == <<"c1">>

\* Image names of the tag endpoints, as their characters' tokens.
ImageNames == {<<"nginx">>, <<"nginx", ":", "1">>, <<"user", "/", "app">>}
RegistryIds == {"dockerhub", "r1"}
\* The 'results' of a 200 answer of the registry, by tag name.
TagPages == {<< >>, <<[name |-> <<"latest">>]>>, <<[name |-> <<"latest">>], [name |-> <<"1">>]>>}
\* What requests.get(api_url, timeout=10) does: answers a status code and a
\* document, or raises (connection error, timeout).
Upstreams ==
    {[kind |-> "answer", status_code |-> 200, results |-> r] : r \in TagPages}
    \cup {[kind |-> "answer", status_code |-> c, results |-> << >>] : c \in {404, 429}}
    \cup {[kind |-> "raise", status_code |-> 0, results |-> << >>]}
TagPageLimit == 20
UpdateTagLimit == 10

VARIABLES
    phase,           \* "new" before lifespan startup, "up" while serving, "stopped"
    default_client,  \* module global default_client
    docker_clients,  \* module global docker_clients: id -> client
    servers,         \* docker_servers collection: id -> descriptor
    notifications,   \* notifications collection, in insertion order
    nextConn,        \* number of clients opened so far
    closes,          \* client number -> times close() was called on it
    lastOp           \* the last handler call: request, response, engine calls

vars == <<phase, default_client, docker_clients, servers, notifications,
          nextConn, closes, lastOp>>

\* ------------------------------------------------------- partial functions
Empty == [x \in {} |-> None]
Put(f, k, v) == [x \in (DOMAIN f) \cup {k} |-> IF x = k THEN v ELSE f[x]]
Del(f, k) == [x \in (DOMAIN f) \ {k} |-> f[x]]
Values(f) == {f[x] : x \in DOMAIN f}

\* ------------------------------------------------------------- responses
NoOp ==
    [op |-> "none", sid |-> "none", status |-> 0, detail |-> "",
     probed |-> {}, failed |-> {}, calls |-> << >>, pull |-> "none",
     ran |-> "none", cid |-> "none", run |-> << >>, repeat |-> FALSE,
     arg |-> << >>, body |-> << >>, fresh |-> FALSE]

Reply(op, sid, status, detail) ==
    [NoOp EXCEPT !.op = op, !.sid = sid, !.status = status, !.detail = detail]

Unavailable(op, sid) == Reply(op, sid, 503, "Docker client not available")

\* ------------------------------------------------------------------ Init
Descriptors == [host : Hosts, active : BOOLEAN]

\* What the docker_servers collection holds when the process starts: what
\* earlier runs of add_docker_server / remove_docker_server left there.
StoredTables ==
    {t \in UNION {[D -> Descriptors] : D \in SUBSET {"a", "b"}} :
        /\ "a" \in DOMAIN t => t["a"] = [host |-> "h1", active |-> TRUE]
        /\ "b" \in DOMAIN t => t["b"].host = "h2"}

Init ==
    /\ phase = "new"
    /\ default_client = None
    /\ docker_clients = Empty
    /\ servers \in StoredTables
    /\ notifications = << >>
    /\ nextConn = 0
    /\ closes = Empty
    /\ lastOp = NoOp


\* ----------------------------------------------------- engine connections
\* The client a successful docker.DockerClient(...) / docker.from_env() builds.
NewClient(n, host) == [n |-> n, host |-> host]

CloseCount(n) == IF n \in DOMAIN closes THEN closes[n] ELSE 0

\* client.close() on every client of cs.
Closed(cs) ==
    [n \in (DOMAIN closes) \cup {c.n : c \in cs} |->
        CloseCount(n) + (IF n \in {c.n : c \in cs} THEN 1 ELSE 0)]

\* A variant of get_docker_client that falls back to any registered client
\* before the default one.
get_docker_client_any(server_id) ==
    IF server_id \in DOMAIN docker_clients
    THEN docker_clients[server_id]
    ELSE IF DOMAIN docker_clients # {}
    THEN docker_clients[CHOOSE s \in DOMAIN docker_clients : TRUE]
    ELSE default_client

\* docker_clients.get(server_id, default_client)
get_docker_client(server_id) ==
    IF server_id \in DOMAIN docker_clients
    THEN docker_clients[server_id]
    ELSE default_client

\* ----------------------------------------------------------------- startup
\* Position of id s among the ids of S, in the order the cursor yields them.
IdOrder == <<"local", "a", "b">>
IdPos(s) == CHOOSE i \in 1..Len(IdOrder) : IdOrder[i] = s
Rank(s, S) == Cardinality({t \in S : IdPos(t) <= IdPos(s)})

\* find({"active": True}), without the 'local' descriptor the loop skips.
LoadTargets == {s \in DOMAIN servers : servers[s].active /\ s # "local"}

\* A variant of load_docker_servers in which the first probe that raises
\* ends the loop.
load_docker_servers_abort(table, up, base) ==
    LET firstBad == {s \in LoadTargets : servers[s].host \notin up}
        ok == {s \in LoadTargets :
                 /\ servers[s].host \in up
                 /\ \A t \in firstBad : IdPos(s) < IdPos(t)}
    IN [s \in (DOMAIN table) \cup ok |->
          IF s \in ok
          THEN NewClient(base + Rank(s, ok), servers[s].host)
          ELSE table[s]]

\* load_docker_servers: each active remote descriptor is probed on its own;
\* a probe that raises is caught inside the loop.  The table after the loop,
\* where base is the number of clients opened before it.
load_docker_servers(table, up, base) ==
    LET ok == {s \in LoadTargets : servers[s].host \in up}
    IN [s \in (DOMAIN table) \cup ok |->
          IF s \in ok
          THEN NewClient(base + Rank(s, ok), servers[s].host)
          ELSE table[s]]

\* lifespan, up to the yield.  up: the hosts whose engine answers ping().
lifespan_startup(up) ==
    /\ phase = "new"
    /\ phase' = "up"
    /\ IF LocalHost \in up
       THEN LET local == NewClient(nextConn + 1, LocalHost)
                table == load_docker_servers(Put(docker_clients, "local", local),
                                             up, nextConn + 1)
            IN /\ default_client' = local
               /\ docker_clients' = table
               /\ nextConn' = nextConn + Cardinality(DOMAIN table)
               /\ lastOp' = [Reply("startup", "none", 0, "") EXCEPT
                     !.probed = {"local"} \cup
                                {s \in LoadTargets : servers[s].host \in up},
                     !.failed = {s \in LoadTargets : servers[s].host \notin up}]
       ELSE /\ default_client' = None
            /\ docker_clients' = docker_clients
            /\ nextConn' = nextConn
            /\ lastOp' = [Reply("startup", "none", 0, "") EXCEPT
                            !.failed = {"local"}]
    /\ UNCHANGED <<servers, notifications, closes>>

\* lifespan, after the yield: close every client of the table.
lifespan_shutdown ==
    /\ phase = "up"
    /\ phase' = "stopped"
    /\ closes' = Closed(Values(docker_clients))
    /\ lastOp' = Reply("shutdown", "none", 0, "")
    /\ UNCHANGED <<default_client, docker_clients, servers, notifications, nextConn>>


\* ------------------------------------------------------- server management
\* find_one({"id": server.id}) is truthy.
Existing(id) == id \in DOMAIN servers

\* A variant of Connect that stores the client before the probe.
Connect_store_first(table, id, client, pingOk) == Put(table, id, client)

\* A variant of Connect that keeps an entry the id already has.
Connect_keep_prior(table, id, client, pingOk) ==
    IF pingOk /\ id \notin DOMAIN table THEN Put(table, id, client) ELSE table

\* The inner try of add_docker_server: ping, then docker_clients[id] = client;
\* a raise before the assignment leaves the table as it was.
Connect(table, id, client, pingOk) ==
    IF pingOk THEN Put(table, id, client) ELSE table

\* The response of an add; fresh: when the call began the id had neither a
\* table entry nor a descriptor.
AddReply(id, status, detail) ==
    [Reply("add", id, status, detail) EXCEPT
       !.fresh = (id \notin DOMAIN docker_clients /\ id \notin DOMAIN servers)]

\* POST /api/docker/servers.  pingOk: the engine at host answers ping();
\* store: "ok", or the store call that raises ("find", "insert").
add_docker_server(id, host, active, pingOk, store) ==
    /\ phase = "up"
    /\ nextConn < MaxConns
    /\ UNCHANGED <<phase, default_client, notifications, closes>>
    /\ IF store = "find"
       THEN /\ lastOp' = AddReply(id, 500, "Failed to add Docker server")
            /\ UNCHANGED <<docker_clients, servers, nextConn>>
       ELSE IF Existing(id)
       THEN /\ lastOp' = AddReply(id, 400, "Server ID already exists")
            /\ UNCHANGED <<docker_clients, servers, nextConn>>
       ELSE LET client == NewClient(nextConn + 1, host)
                pinged == <<<<client.n, "ping">>>>
            IN /\ docker_clients' = Connect(docker_clients, id, client, pingOk)
               /\ nextConn' = IF pingOk THEN nextConn + 1 ELSE nextConn
               /\ IF ~pingOk
                  THEN /\ lastOp' = [AddReply(id, 400,
                                              "Cannot connect to Docker server")
                                     EXCEPT !.failed = {id}]
                       /\ UNCHANGED servers
                  ELSE IF store = "insert"
                  THEN /\ lastOp' = [AddReply(id, 500,
                                              "Failed to add Docker server")
                                     EXCEPT !.probed = {id}, !.calls = pinged]
                       /\ UNCHANGED servers
                  ELSE /\ lastOp' = [AddReply(id, 200, "added")
                                     EXCEPT !.probed = {id}, !.calls = pinged]
                       /\ servers' = Put(servers, id,
                                         [host |-> host, active |-> active])

\* A variant of IsLocal that lets "local" through.
IsLocal_never(server_id) == FALSE

\* if server_id == "local"
IsLocal(server_id) == server_id = "local"

\* A variant of delete_one that reports the deletion without doing it.
delete_one_keep(coll, server_id) ==
    [coll |-> coll,
     deleted_count |-> IF server_id \in DOMAIN coll THEN 1 ELSE 0]

\* docker_servers_collection.delete_one({"id": server_id})
delete_one(coll, server_id) ==
    [coll |-> Del(coll, server_id),
     deleted_count |-> IF server_id \in DOMAIN coll THEN 1 ELSE 0]

\* A variant of NotFound that never reports a missing descriptor.
NotFound_never(result) == FALSE

\* if result.deleted_count == 0
NotFound(result) == result.deleted_count = 0

\* The response of a removal; repeat: the call before it was a successful
\* removal of the same id.
RemoveReply(server_id, status, detail) ==
    [Reply("remove", server_id, status, detail) EXCEPT
       !.repeat = (lastOp.op = "remove" /\ lastOp.status = 200
                   /\ lastOp.sid = server_id)]

\* DELETE /api/docker/servers/{server_id}.  store: "ok", or "delete" when
\* delete_one raises.
remove_docker_server(server_id, store) ==
    /\ phase = "up"
    /\ UNCHANGED <<phase, default_client, notifications, nextConn>>
    /\ IF IsLocal(server_id)
       THEN /\ lastOp' = RemoveReply(server_id, 400, "Cannot remove local server")
            /\ UNCHANGED <<docker_clients, servers, closes>>
       ELSE IF store = "delete"
       THEN /\ lastOp' = RemoveReply(server_id, 500,
                               "Failed to remove Docker server")
            /\ UNCHANGED <<docker_clients, servers, closes>>
       ELSE LET result == delete_one(servers, server_id)
            IN IF NotFound(result)
               THEN /\ lastOp' = RemoveReply(server_id, 404, "Server not found")
                    /\ UNCHANGED <<docker_clients, servers, closes>>
               ELSE /\ servers' = result.coll
                    /\ lastOp' = RemoveReply(server_id, 200, "removed")
                    /\ IF server_id \in DOMAIN docker_clients
                       THEN /\ closes' = Closed({docker_clients[server_id]})
                            /\ docker_clients' = Del(docker_clients, server_id)
                       ELSE UNCHANGED <<docker_clients, closes>>


\* ------------------------------------------------------------ engine reads
\* Outcomes of the engine calls of a read: "ok", docker.errors.NotFound, or
\* any other exception.
ReadOutcomes == {"ok", "error"}
ContainerOutcomes == {"ok", "notfound", "error"}

\* A handler that resolves the client, fails fast with 503 when there is
\* none, and otherwise issues its engine calls on it.  first/second are the
\* engine calls in order (second "" when there is one call only); NotFound
\* is raised by the first call, containers.get.  arg: what the engine
\* answered; body: the payload of the 200 response.
EngineReadWith(op, server_id, first, second, outcome, failure, arg, body) ==
    /\ phase = "up"
    /\ LET docker_client == get_docker_client(server_id)
       IN IF docker_client = None
          THEN lastOp' = Unavailable(op, server_id)
          ELSE lastOp' =
                 [Reply(op, server_id,
                        CASE outcome = "ok" -> 200
                          [] outcome = "notfound" -> 404
                          [] OTHER -> 500,
                        CASE outcome = "ok" -> "ok"
                          [] outcome = "notfound" -> "Container not found"
                          [] OTHER -> failure)
                  EXCEPT !.calls =
                    IF second = "" \/ outcome = "notfound"
                    THEN <<<<docker_client.n, first>>>>
                    ELSE <<<<docker_client.n, first>>, <<docker_client.n, second>>>>,
                         !.arg = arg,
                         !.body = IF outcome = "ok" THEN body ELSE << >>]
    /\ UNCHANGED <<phase, default_client, docker_clients, servers,
                   notifications, nextConn, closes>>

\* The same for a handler whose payload is not modelled.
EngineRead(op, server_id, first, second, outcome, failure) ==
    EngineReadWith(op, server_id, first, second, outcome, failure, << >>, << >>)

\* GET /api/docker/status
docker_status(server_id, outcome) ==
    EngineRead("status", server_id, "info", "", outcome, "Docker connection error")

\* container_info of each container, in order
ContainerList(containers, server_id) ==
    [i \in DOMAIN containers |-> [id |-> containers[i], server_id |-> server_id]]

\* GET /api/containers.  containers: what containers.list(all=True) answers.
get_containers(server_id, outcome, containers) ==
    EngineReadWith("containers", server_id, "containers.list", "", outcome,
                   "Failed to get containers",
                   IF outcome = "ok" THEN <<containers>> ELSE << >>,
                   ContainerList(containers, server_id))

\* Every tag is reported, an image without tags included.
Tags_raw(image) == image.tags

\* image.tags if image.tags else ["<none>:<none>"]
Tags(image) == IF image.tags # << >> THEN image.tags ELSE <<Sentinel>>

\* image_info of one image, one per tag
ImageInfos(image, server_id) ==
    [t \in DOMAIN Tags(image) |->
        [id |-> image.id, tag |-> Tags(image)[t], server_id |-> server_id]]

RECURSIVE ImageList(_, _)
\* image_list after the loop over images
ImageList(images, server_id) ==
    IF images = << >> THEN << >>
    ELSE ImageInfos(Head(images), server_id) \o ImageList(Tail(images), server_id)

\* GET /api/images.  images: what images.list() answers.
get_images(server_id, outcome, images) ==
    EngineReadWith("images", server_id, "images.list", "", outcome,
                   "Failed to get images",
                   IF outcome = "ok" THEN <<images>> ELSE << >>,
                   ImageList(images, server_id))

\* ------------------------------------------------------------------ stats
\* A dict is a function on the keys it holds.
Key(d, k) == k \in DOMAIN d

\* d.get(k, 0)
Get(d, k) == IF k \in DOMAIN d THEN d[k] ELSE 0

\* round(a / b * 100, 2) for b > 0, in hundredths (ties to even).
Round2(a, b) ==
    LET n == a * 10000
        q == n \div b
        r == n % b
    IN IF 2 * r > b \/ (2 * r = b /\ q % 2 = 1) THEN q + 1 ELSE q

RECURSIVE SumOver(_, _, _)
\* total += docs[name].get(k, 0) for each name
SumOver(docs, names, k) ==
    IF names = {} THEN 0
    ELSE LET name == CHOOSE x \in names : TRUE
         IN Get(docs[name], k) + SumOver(docs, names \ {name}, k)

\* "cpu_stats" in stats and "precpu_stats" in stats, and "cpu_usage" in both
CpuBranch(stats) ==
    /\ Key(stats, "cpu_stats")
    /\ Key(stats, "precpu_stats")
    /\ Key(stats["cpu_stats"], "cpu_usage")
    /\ Key(stats["precpu_stats"], "cpu_usage")

\* The subscripts of the two delta lines all find their key.
DeltaKeys(stats) ==
    /\ Key(stats["cpu_stats"]["cpu_usage"], "total_usage")
    /\ Key(stats["precpu_stats"]["cpu_usage"], "total_usage")
    /\ Key(stats["cpu_stats"], "system_cpu_usage")
    /\ Key(stats["precpu_stats"], "system_cpu_usage")

cpu_delta(stats) ==
    stats["cpu_stats"]["cpu_usage"]["total_usage"]
        - stats["precpu_stats"]["cpu_usage"]["total_usage"]

system_delta(stats) ==
    stats["cpu_stats"]["system_cpu_usage"] - stats["precpu_stats"]["system_cpu_usage"]

\* A subscript of the CPU block raises KeyError.
StatsRaises(stats) ==
    /\ CpuBranch(stats)
    /\ \/ ~DeltaKeys(stats)
       \/ /\ system_delta(stats) > 0
          /\ ~Key(stats["cpu_stats"]["cpu_usage"], "percpu_usage")

\* round(cpu_percent, 2), in hundredths of a percent
cpu_percent(stats) ==
    IF CpuBranch(stats) /\ system_delta(stats) > 0
    THEN Round2(cpu_delta(stats)
                  * Len(stats["cpu_stats"]["cpu_usage"]["percpu_usage"]),
                system_delta(stats))
    ELSE 0

\* The payload get_container_stats returns for a snapshot that raises nothing.
StatsBody(server_id, stats) ==
    LET memory_usage == IF Key(stats, "memory_stats")
                        THEN Get(stats["memory_stats"], "usage") ELSE 0
        memory_limit == IF Key(stats, "memory_stats")
                        THEN Get(stats["memory_stats"], "limit") ELSE 0
        networks == IF Key(stats, "networks") THEN stats["networks"] ELSE << >>
    IN [server_id |-> server_id,
        cpu_percent |-> cpu_percent(stats),
        memory_usage |-> memory_usage,
        memory_limit |-> memory_limit,
        memory_percent |-> IF memory_limit > 0
                           THEN Round2(memory_usage, memory_limit) ELSE 0,
        network_rx |-> SumOver(networks, DOMAIN networks, "rx_bytes"),
        network_tx |-> SumOver(networks, DOMAIN networks, "tx_bytes")]

\* GET /api/containers/{container_id}/stats.  stats: what
\* container.stats(stream=False) answers.
get_container_stats(server_id, outcome, stats) ==
    EngineReadWith("stats", server_id, "containers.get", "stats",
                   IF outcome = "ok" /\ StatsRaises(stats) THEN "error" ELSE outcome,
                   "Failed to get container stats",
                   IF outcome = "ok" THEN <<stats>> ELSE << >>,
                   StatsBody(server_id, stats))

\* GET /api/containers/{container_id}/logs
get_container_logs(server_id, outcome) ==
    EngineRead("logs", server_id, "containers.get", "logs", outcome,
               "Failed to get container logs")

\* GET /api/containers/{container_id}/yaml
get_container_yaml(server_id, outcome) ==
    EngineRead("yaml", server_id, "containers.get", "", outcome,
               "Failed to get container YAML")

\* POST /api/containers/{container_id}/restart
restart_container(server_id, outcome) ==
    EngineRead("restart", server_id, "containers.get", "restart", outcome,
               "Failed to restart container")

\* ---------------------------------------------------------------- deploy
\* sep in entry
Has(entry, sep) == \E i \in 1..Len(entry) : entry[i] = sep

\* entry.split(sep, 1) for an entry that holds sep
Split1(entry, sep) ==
    LET i == CHOOSE k \in 1..Len(entry) :
                 entry[k] = sep /\ \A j \in 1..(k - 1) : entry[j] # sep
    IN <<SubSeq(entry, 1, i - 1), SubSeq(entry, i + 1, Len(entry))>>

\* A variant of ParsePorts in which an entry without ':' ends the loop.
RECURSIVE ParsePorts_stop(_, _)
ParsePorts_stop(ports, port_bindings) ==
    IF ports = << >> THEN port_bindings
    ELSE LET port_mapping == Head(ports)
         IN IF Has(port_mapping, ":")
            THEN ParsePorts_stop(Tail(ports),
                                 Put(port_bindings, Split1(port_mapping, ":")[2],
                                     Split1(port_mapping, ":")[1]))
            ELSE port_bindings

\* The loop over deployment.ports: port_bindings[container_port] = host_port
RECURSIVE ParsePorts(_, _)
ParsePorts(ports, port_bindings) ==
    IF ports = << >> THEN port_bindings
    ELSE LET port_mapping == Head(ports)
         IN IF Has(port_mapping, ":")
            THEN ParsePorts(Tail(ports),
                            Put(port_bindings, Split1(port_mapping, ":")[2],
                                Split1(port_mapping, ":")[1]))
            ELSE ParsePorts(Tail(ports), port_bindings)

\* The loop over deployment.volumes
RECURSIVE ParseVolumes(_, _)
ParseVolumes(vols, volumes) ==
    IF vols = << >> THEN volumes
    ELSE LET volume_mapping == Head(vols)
         IN IF Has(volume_mapping, ":")
            THEN ParseVolumes(Tail(vols),
                              Put(volumes, Split1(volume_mapping, ":")[1],
                                  [bind |-> Split1(volume_mapping, ":")[2],
                                   mode |-> "rw"]))
            ELSE ParseVolumes(Tail(vols), volumes)

\* The loop over deployment.environment
RECURSIVE ParseEnvironment(_, _)
ParseEnvironment(envs, environment) ==
    IF envs = << >> THEN environment
    ELSE LET env_var == Head(envs)
         IN IF Has(env_var, "=")
            THEN ParseEnvironment(Tail(envs),
                                  Put(environment, Split1(env_var, "=")[1],
                                      Split1(env_var, "=")[2]))
            ELSE ParseEnvironment(Tail(envs), environment)

\* A variant of AfterPull in which a pull that raises fails the deployment.
AfterPull_abort(pullOk, run) == IF pullOk THEN run ELSE "pull failed"

\* The inner try around images.pull: the exception is printed and dropped,
\* so what decides the deployment is containers.run alone ("ok" or str(e)).
AfterPull(pullOk, run) == run

\* A variant of SuccessNotification with the type of the failure record.
SuccessNotification_as_error(name, server_id) ==
    [type |-> "error", title |-> "Container Deployed", name |-> name,
     image |-> ImageRef, error |-> "", server_id |-> server_id]

\* The notification of a deployment that started.
SuccessNotification(name, server_id) ==
    [type |-> "success", title |-> "Container Deployed", name |-> name,
     image |-> ImageRef, error |-> "", server_id |-> server_id]

\* A variant of ErrorNotification that leaves out str(e).
ErrorNotification_no_text(name, server_id, error) ==
    [type |-> "error", title |-> "Deployment Failed", name |-> name,
     image |-> << >>, error |-> "", server_id |-> server_id]

\* The notification of a deployment that failed; error is str(e).
ErrorNotification(name, server_id, error) ==
    [type |-> "error", title |-> "Deployment Failed", name |-> name,
     image |-> << >>, error |-> error, server_id |-> server_id]

\* POST /api/deploy.  pullOk: images.pull answers; run: "ok" or the str(e)
\* of what containers.run raises; cid: the id of the container it returns.
deploy_container(server_id, name, ports, volumes, environment, pullOk, run, cid) ==
    /\ phase = "up"
    /\ LET docker_client == get_docker_client(server_id)
           result == AfterPull(pullOk, run)
           args == [image |-> ImageRef, name |-> name,
                    ports |-> ParsePorts(ports, Empty),
                    volumes |-> ParseVolumes(volumes, Empty),
                    environment |-> ParseEnvironment(environment, Empty)]
           pulled == [Reply("deploy", server_id, 0, "") EXCEPT
                        !.pull = IF pullOk THEN "ok" ELSE "failed",
                        !.arg = ports]
       IN IF docker_client = None
          THEN /\ lastOp' = Unavailable("deploy", server_id)
               /\ UNCHANGED notifications
          ELSE /\ Len(notifications) < MaxNotes
               /\ IF result = "ok"
                  THEN /\ notifications' =
                            Append(notifications, SuccessNotification(name, server_id))
                       /\ lastOp' = [pulled EXCEPT
                            !.status = 200, !.detail = "deployed", !.cid = cid,
                            !.ran = "ok",
                            !.run = <<args>>,
                            !.calls = <<<<docker_client.n, "images.pull">>,
                                        <<docker_client.n, "containers.run">>>>]
                  ELSE /\ notifications' =
                            Append(notifications,
                                   ErrorNotification(name, server_id, result))
                       /\ lastOp' = [pulled EXCEPT
                            !.status = 500, !.detail = result,
                            !.ran = IF result = run THEN run ELSE "none",
                            !.run = IF result = run THEN <<args>> ELSE << >>,
                            !.calls =
                              IF result = run
                              THEN <<<<docker_client.n, "images.pull">>,
                                     <<docker_client.n, "containers.run">>>>
                              ELSE <<<<docker_client.n, "images.pull">>>>]
    /\ UNCHANGED <<phase, default_client, docker_clients, servers, nextConn, closes>>

\* --------------------------------------------------------------- servers
\* A variant of Connected that reports the descriptor's 'active' flag.
Connected_active(id) == id \in DOMAIN servers /\ servers[id].active

\* server["id"] in docker_clients
Connected(id) == id \in DOMAIN docker_clients

\* list(docker_servers_collection.find({}, {"_id": 0})), in cursor order
Persisted ==
    LET ids == SelectSeq(IdOrder, LAMBDA id : id \in DOMAIN servers)
    IN [i \in DOMAIN ids |->
          [id |-> ids[i], host |-> servers[ids[i]].host, active |-> servers[ids[i]].active]]

\* The entry inserted at index 0 when no descriptor has id 'local'.
LocalServer ==
    [id |-> "local", name |-> "Local Server", host |-> "localhost", active |-> TRUE]

\* The 'servers' list of the response.
ServerList ==
    LET listed == IF \E i \in DOMAIN Persisted : Persisted[i].id = "local"
                  THEN Persisted
                  ELSE <<LocalServer>> \o Persisted
    IN [i \in DOMAIN listed |-> listed[i] @@ [connected |-> Connected(listed[i].id)]]

\* GET /api/docker/servers.  store: "ok", or "find" when the query raises.
get_docker_servers(store) ==
    /\ phase = "up"
    /\ lastOp' = IF store = "find"
                 THEN Reply("servers", "none", 500, "Failed to get Docker servers")
                 ELSE [Reply("servers", "none", 200, "ok") EXCEPT !.body = ServerList]
    /\ UNCHANGED <<phase, default_client, docker_clients, servers,
                   notifications, nextConn, closes>>

\* ------------------------------------------------------------------ tags
\* seq[:n]
Take(seq, n) == SubSeq(seq, 1, IF Len(seq) < n THEN Len(seq) ELSE n)

\* api_url below base_url: official images live under library/
ApiPath(image_name) ==
    IF ~Has(image_name, "/") THEN <<"library", "/">> \o image_name ELSE image_name

\* What get_image_tags(image_name, registry_id) returns or raises.  found:
\* registries_collection.find_one answers a document; upstream: what the
\* registry does with the request.
TagsResponse(image_name, registry_id, found, upstream) ==
    IF registry_id # "dockerhub" /\ ~found
    THEN [status |-> 404, detail |-> "Registry not found", calls |-> << >>,
          arg |-> << >>, body |-> << >>]
    ELSE LET made == [calls |-> <<<<registry_id, ApiPath(image_name)>>>>,
                      arg |-> <<upstream>>]
         IN IF upstream.kind = "raise"
            THEN made @@ [status |-> 500, detail |-> "Failed to get image tags",
                          body |-> << >>]
            ELSE IF upstream.status_code = 200
            THEN LET tags == Take(upstream.results, TagPageLimit)
                 IN made @@ [status |-> 200, detail |-> "ok",
                             body |-> [image |-> image_name, registry |-> registry_id,
                                       tags |-> tags, total_count |-> Len(tags)]]
            ELSE made @@ [status |-> upstream.status_code, detail |-> "Registry error",
                          body |-> << >>]

\* GET /api/images/{image_name}/tags
get_image_tags(image_name, registry_id, found, upstream) ==
    /\ phase = "up"
    /\ LET response == TagsResponse(image_name, registry_id, found, upstream)
       IN lastOp' = [Reply("tags", registry_id, response.status, response.detail)
                     EXCEPT !.calls = response.calls, !.arg = response.arg,
                            !.body = response.body]
    /\ UNCHANGED <<phase, default_client, docker_clients, servers,
                   notifications, nextConn, closes>>

\* A variant of UpdatesResponse in which a failure of get_image_tags
\* propagates to the caller.
UpdatesResponse_raise(image_name, registry_id, found, upstream) ==
    LET repo == IF Has(image_name, ":") THEN Split1(image_name, ":")[1] ELSE image_name
        current_tag == IF Has(image_name, ":") THEN Split1(image_name, ":")[2]
                       ELSE <<"latest">>
        tags_response == TagsResponse(repo, registry_id, found, upstream)
    IN IF tags_response.status = 200
       THEN LET available_tags == tags_response.body.tags
            IN [tags_response EXCEPT
                  !.body = [image |-> image_name, current_tag |-> current_tag,
                            available_tags |-> Take(available_tags, UpdateTagLimit),
                            has_updates |-> \E t \in DOMAIN available_tags :
                                               available_tags[t].name # current_tag,
                            registry |-> registry_id]]
       ELSE tags_response

\* What check_image_updates(image_name, registry_id) returns: whatever
\* get_image_tags raises is caught and reported in the 'error' field.
UpdatesResponse(image_name, registry_id, found, upstream) ==
    LET repo == IF Has(image_name, ":") THEN Split1(image_name, ":")[1] ELSE image_name
        current_tag == IF Has(image_name, ":") THEN Split1(image_name, ":")[2]
                       ELSE <<"latest">>
        tags_response == TagsResponse(repo, registry_id, found, upstream)
    IN IF tags_response.status = 200
       THEN LET available_tags == tags_response.body.tags
            IN [tags_response EXCEPT
                  !.body = [image |-> image_name, current_tag |-> current_tag,
                            available_tags |-> Take(available_tags, UpdateTagLimit),
                            has_updates |-> \E t \in DOMAIN available_tags :
                                               available_tags[t].name # current_tag,
                            registry |-> registry_id]]
       ELSE [tags_response EXCEPT
               !.status = 200, !.detail = "ok",
               !.body = [image |-> image_name, available_tags |-> << >>,
                         has_updates |-> FALSE, registry |-> registry_id,
                         error |-> <<tags_response.status, tags_response.detail>>]]

\* GET /api/images/{image_name}/check-updates
check_image_updates(image_name, registry_id, found, upstream) ==
    /\ phase = "up"
    /\ LET response == UpdatesResponse(image_name, registry_id, found, upstream)
       IN lastOp' = [Reply("updates", registry_id, response.status, response.detail)
                     EXCEPT !.calls = response.calls, !.arg = response.arg,
                            !.body = response.body]
    /\ UNCHANGED <<phase, default_client, docker_clients, servers,
                   notifications, nextConn, closes>>

\* ------------------------------------------------------------ specification
Lifecycle ==
    \/ \E up \in SUBSET AllHosts : lifespan_startup(up)
    \/ lifespan_shutdown

Registry ==
    \/ \E id \in Ids, host \in Hosts, pingOk \in BOOLEAN :
          add_docker_server(id, host, TRUE, pingOk, "ok")
    \/ \E id \in Ids : remove_docker_server(id, "ok")
    \/ get_docker_servers("ok")

Reads ==
    \/ \E id \in Ids, o \in ReadOutcomes : docker_status(id, o)
    \/ \E id \in Ids, o \in ReadOutcomes : get_containers(id, o, ContainersFull)
    \/ \E id \in Ids, o \in ReadOutcomes : get_images(id, o, ImagesFull)
    \/ \E id \in Ids, o \in ContainerOutcomes : get_container_stats(id, o, StatsFull)
    \/ \E id \in Ids, o \in ContainerOutcomes : get_container_logs(id, o)
    \/ \E id \in Ids, o \in ContainerOutcomes : get_container_yaml(id, o)
    \/ \E id \in Ids, o \in ContainerOutcomes : restart_container(id, o)

Deploys ==
    \E id \in Ids, name \in Names, ports \in PortLists, volumes \in VolumeLists,
       environment \in EnvLists, pullOk \in BOOLEAN,
       run \in {"ok"} \cup RunErrors, cid \in ContainerIds :
       deploy_container(id, name, ports, volumes, environment, pullOk, run, cid)

\* The registry and the engine reads.
Next == Lifecycle \/ Registry \/ Reads

Spec == Init /\ [][Next]_vars

\* The deployment workflow on the table the startup builds.
NextDeploy == Lifecycle \/ Deploys

SpecDeploy == Init /\ [][NextDeploy]_vars


\* The registry and the engine reads, with a document store whose calls may
\* raise.
StoreFaults ==
    \/ \E id \in Ids, host \in Hosts, pingOk \in BOOLEAN, store \in {"find", "insert"} :
          add_docker_server(id, host, TRUE, pingOk, store)
    \/ \E id \in Ids : remove_docker_server(id, "delete")
    \/ get_docker_servers("find")

NextStoreFault == Lifecycle \/ Registry \/ StoreFaults

SpecStoreFault == Init /\ [][NextStoreFault]_vars

\* The service on a machine whose local engine does not answer: the startup
\* leaves default_client None, and engines are registered by add only.
NextNoLocal ==
    \/ \E up \in SUBSET Hosts : lifespan_startup(up)
    \/ lifespan_shutdown
    \/ \E id \in Ids, pingOk \in BOOLEAN :
          add_docker_server(id, "h1", TRUE, pingOk, "ok")
    \/ \E id \in Ids : docker_status(id, "ok")
    \/ \E id \in Ids : get_containers(id, "ok", ContainersFull)
    \/ \E id \in Ids : get_images(id, "ok", ImagesFull)
    \/ \E id \in Ids : get_container_stats(id, "ok", StatsFull)
    \/ \E id \in Ids : get_container_logs(id, "ok")
    \/ \E id \in Ids, name \in Names, run \in {"ok"} \cup RunErrors,
          cid \in ContainerIds :
          deploy_container(id, name, << >>, << >>, << >>, TRUE, run, cid)

SpecNoLocal == Init /\ [][NextNoLocal]_vars

\* The stats handler on a fresh installation (no persisted descriptors, the
\* local engine up), over the snapshots an engine may answer.
InitStats == Init /\ servers = Empty

NextStats ==
    \/ lifespan_startup({LocalHost})
    \/ lifespan_shutdown
    \/ \E stats \in Snapshots : get_container_stats("local", "ok", stats)
    \/ \E o \in ContainerOutcomes : get_container_stats("local", o, StatsFull)

SpecStats == InitStats /\ [][NextStats]_vars

\* The image inventory on the table the startup builds, over the image
\* lists an engine may answer.
NextImages ==
    \/ Lifecycle
    \/ \E id \in Ids, o \in ReadOutcomes, images \in ImageLists :
          get_images(id, o, images)

SpecImages == Init /\ [][NextImages]_vars

\* The tag endpoints, over what the registry may do with the request.
NextTags ==
    \/ Lifecycle
    \/ \E image_name \in ImageNames, registry_id \in RegistryIds, found \in BOOLEAN,
          upstream \in Upstreams :
          get_image_tags(image_name, registry_id, found, upstream)
    \/ \E image_name \in ImageNames, registry_id \in RegistryIds, found \in BOOLEAN,
          upstream \in Upstreams :
          check_image_updates(image_name, registry_id, found, upstream)

SpecTags == Init /\ [][NextTags]_vars

\* ------------------------------------------------------------- properties
ConsumerOps ==
    {"status", "containers", "images", "deploy", "stats", "logs", "yaml", "restart"}

RegistryKept == docker_clients' = docker_clients /\ servers' = servers

\* C1: a consumer operation that names an engine id with no entry in the
\* connection table is answered 503 and issues no call on any engine.
C1_AbsentIdIsUnavailable ==
    [][(lastOp'.op \in ConsumerOps /\ lastOp'.sid \notin DOMAIN docker_clients)
          => (lastOp'.status = 503 /\ lastOp'.calls = << >>)]_vars

\* C2: an add whose liveness probe fails is answered 400 'Cannot connect to
\* Docker server' and leaves the connection table and the persisted
\* descriptors exactly as they were.
C2_FailedProbeKeepsRegistry ==
    [][(lastOp'.op = "add" /\ lastOp'.failed # {})
          => /\ lastOp'.status = 400
             /\ lastOp'.detail = "Cannot connect to Docker server"
             /\ RegistryKept]_vars

C2_Witness ==
    /\ lastOp.op = "add"
    /\ lastOp.failed = {lastOp.sid}
    /\ lastOp.status = 400
    /\ DOMAIN docker_clients # {}
    /\ DOMAIN servers # {}

\* C3: once the local engine connected at startup, the table maps "local"
\* to that connection in every later state of the running service.
C3_LocalIsReserved ==
    (phase = "up" /\ default_client # None)
        => /\ "local" \in DOMAIN docker_clients
           /\ docker_clients["local"] = default_client
           /\ docker_clients["local"].host = LocalHost

\* C4: removing "local" is answered 400 'Cannot remove local server' in
\* every registry state, and nothing is changed.
C4_RemoveLocalRejected ==
    [][(lastOp'.op = "remove" /\ lastOp'.sid = "local")
          => /\ lastOp'.status = 400
             /\ lastOp'.detail = "Cannot remove local server"
             /\ RegistryKept
             /\ closes' = closes]_vars

C4_Witness ==
    /\ lastOp.op = "remove"
    /\ lastOp.sid = "local"
    /\ lastOp.status = 400
    /\ "local" \in DOMAIN servers
    /\ "local" \in DOMAIN docker_clients

\* C5: removing a non-local id that has no persisted descriptor is answered
\* 404 'Server not found' and nothing is changed.
C5_RemoveMissingNotFound ==
    [][(lastOp'.op = "remove" /\ lastOp'.sid # "local"
        /\ lastOp'.sid \notin DOMAIN servers)
          => /\ lastOp'.status = 404
             /\ lastOp'.detail = "Server not found"
             /\ RegistryKept]_vars

C5_Witness ==
    /\ lastOp.op = "remove"
    /\ lastOp.sid # "local"
    /\ lastOp.status = 404
    /\ DOMAIN servers # {}
    /\ DOMAIN docker_clients # {}

\* C6 as stated: a removal of a non-local id that is not present completes
\* without an error and changes nothing.
C6_RemoveAbsentSilent ==
    [][(lastOp'.op = "remove" /\ lastOp'.sid # "local"
        /\ lastOp'.sid \notin DOMAIN servers
        /\ lastOp'.sid \notin DOMAIN docker_clients)
          => (lastOp'.status < 400 /\ RegistryKept)]_vars

\* C6: the second of two consecutive removals of the same non-local id is
\* answered 404 'Server not found' and leaves the state the first one left.
C6_SecondRemovalNotFound ==
    [][(lastOp.op = "remove" /\ lastOp.status = 200
        /\ lastOp'.op = "remove" /\ lastOp'.sid = lastOp.sid)
          => /\ lastOp'.status = 404
             /\ lastOp'.detail = "Server not found"
             /\ RegistryKept
             /\ closes' = closes]_vars

C6_Witness ==
    /\ lastOp.op = "remove"
    /\ lastOp.repeat
    /\ lastOp.status = 404
    /\ lastOp.sid \notin DOMAIN servers
    /\ lastOp.sid \notin DOMAIN docker_clients

C8_StartupIsolation ==
    lastOp.op = "startup"
        => /\ phase = "up"
           /\ \A s \in lastOp.probed \ {"local"} :
                 /\ s \in DOMAIN docker_clients
                 /\ docker_clients[s].host = servers[s].host
           /\ \A s \in lastOp.failed \ {"local"} : s \notin DOMAIN docker_clients
           /\ default_client # None
                 => (lastOp.probed \cup lastOp.failed) \ {"local"} = LoadTargets

C8_Witness ==
    /\ lastOp.op = "startup"
    /\ "a" \in lastOp.failed
    /\ "b" \in lastOp.probed
    /\ "b" \in DOMAIN docker_clients
    /\ "a" \notin DOMAIN docker_clients

\* C9: a deployment whose image pull fails still runs the container; when
\* create/start succeeds it returns success with the container id and appends
\* one success notification, and it fails only when create/start raises.
C9_PullFailureTolerated ==
    [][(lastOp'.op = "deploy" /\ lastOp'.pull = "failed")
          => /\ lastOp'.ran # "none"
             /\ lastOp'.calls[Len(lastOp'.calls)][2] = "containers.run"
             /\ lastOp'.ran = "ok"
                   => /\ lastOp'.status = 200
                      /\ lastOp'.cid \in ContainerIds
                      /\ \E name \in Names :
                            notifications' =
                              Append(notifications,
                                     SuccessNotification(name, lastOp'.sid))
             /\ lastOp'.status # 200 => lastOp'.ran \in RunErrors]_vars

C9_Witness ==
    /\ lastOp.op = "deploy"
    /\ lastOp.pull = "failed"
    /\ lastOp.ran = "ok"
    /\ lastOp.status = 200
    /\ lastOp.cid \in ContainerIds
    /\ notifications # << >>
    /\ notifications[Len(notifications)].type = "success"

\* C10: a deployment whose create/start raises is answered with a failure
\* and appends exactly one notification, of type error and carrying the error
\* text; no success notification is appended.
C10_RunFailureReported ==
    [][(lastOp'.op = "deploy" /\ lastOp'.ran \in RunErrors)
          => /\ lastOp'.status = 500
             /\ lastOp'.detail = lastOp'.ran
             /\ lastOp'.cid = "none"
             /\ Len(notifications') = Len(notifications) + 1
             /\ SubSeq(notifications', 1, Len(notifications)) = notifications
             /\ notifications'[Len(notifications')].type = "error"
             /\ notifications'[Len(notifications')].error = lastOp'.ran
             /\ notifications'[Len(notifications')].server_id = lastOp'.sid]_vars

C10_Witness ==
    /\ lastOp.op = "deploy"
    /\ lastOp.ran \in RunErrors
    /\ lastOp.status = 500
    /\ Len(notifications) = 2
    /\ notifications[1].type = "success"
    /\ notifications[2].type = "error"
    /\ notifications[2].error = lastOp.ran

\* C11 as stated: every deploy call, a rejection for an unavailable engine
\* included, appends exactly one notification, of type success exactly when
\* the call succeeds, and the success notification carries the id and the
\* name of the container.
C11_AlwaysOneNotification ==
    [][lastOp'.op = "deploy"
          => /\ Len(notifications') = Len(notifications) + 1
             /\ SubSeq(notifications', 1, Len(notifications)) = notifications
             /\ (notifications'[Len(notifications')].type = "success")
                   <=> (lastOp'.status = 200)
             /\ lastOp'.status = 200
                   => /\ lastOp'.cid \in ContainerIds
                      /\ notifications'[Len(notifications')].name \in Names
                      /\ "container_id" \in DOMAIN notifications'[Len(notifications')]
                      /\ notifications'[Len(notifications')].container_id
                            = lastOp'.cid]_vars

\* C11: a deploy call that resolved an engine appends exactly one
\* notification, of type success exactly when the call succeeds; the success
\* notification names the container and the image and the caller receives the
\* container id; a call rejected with 503 appends nothing.
C11_OneNotificationOnceResolved ==
    [][lastOp'.op = "deploy"
          => IF lastOp'.status = 503
             THEN notifications' = notifications /\ lastOp'.calls = << >>
             ELSE /\ Len(notifications') = Len(notifications) + 1
                  /\ SubSeq(notifications', 1, Len(notifications)) = notifications
                  /\ lastOp'.status \in {200, 500}
                  /\ (notifications'[Len(notifications')].type = "success")
                        <=> (lastOp'.status = 200)
                  /\ (notifications'[Len(notifications')].type = "error")
                        <=> (lastOp'.status = 500)
                  /\ lastOp'.status = 200
                        => /\ lastOp'.cid \in ContainerIds
                           /\ notifications'[Len(notifications')].name \in Names
                           /\ notifications'[Len(notifications')].image = ImageRef
                           /\ notifications'[Len(notifications')].server_id
                                 = lastOp'.sid]_vars

C11_Witness ==
    /\ lastOp.op = "deploy"
    /\ lastOp.status = 200
    /\ lastOp.pull = "ok"
    /\ lastOp.cid \in ContainerIds
    /\ Len(notifications) = 2
    /\ notifications[1].type = "error"
    /\ notifications[2].type = "success"

\* The positions of the well-formed 'hostPort:containerPort' entries.
WellFormed(ports) == {i \in 1..Len(ports) : Has(ports[i], ":")}

\* C13: the bindings passed to containers.run are exactly those of the
\* well-formed port entries, container port -> host port (the last entry
\* for a container port wins); entries without ':' add nothing and do not
\* fail the deployment.
C13_MalformedPortsSkipped ==
    (lastOp.op = "deploy" /\ lastOp.status # 503)
        => /\ lastOp.run # << >>
           /\ LET req == lastOp.arg
                  bindings == lastOp.run[1].ports
              IN /\ DOMAIN bindings =
                       {Split1(req[i], ":")[2] : i \in WellFormed(req)}
                 /\ \A i \in WellFormed(req) :
                       (\A j \in WellFormed(req) :
                           Split1(req[j], ":")[2] = Split1(req[i], ":")[2] => j <= i)
                         => bindings[Split1(req[i], ":")[2]] = Split1(req[i], ":")[1]
           /\ lastOp.ran = "ok" => lastOp.status = 200

C13_Witness ==
    /\ lastOp.op = "deploy"
    /\ lastOp.status = 200
    /\ lastOp.arg = <<PortEntryBad, PortEntryOk>>
    /\ lastOp.run[1].ports = [c \in {<<"9">>} |-> <<"8">>]

\* C12: with no default client, status, containers, images, stats, logs and
\* deploy on an id without an entry are answered 503 'Docker client not
\* available', call no engine and append no notification.
C12_NoClientIsUnavailable ==
    [][(lastOp'.op \in {"status", "containers", "images", "stats", "logs", "deploy"}
        /\ default_client = None
        /\ lastOp'.sid \notin DOMAIN docker_clients)
          => /\ lastOp'.status = 503
             /\ lastOp'.detail = "Docker client not available"
             /\ lastOp'.calls = << >>
             /\ notifications' = notifications]_vars

C12_Witness ==
    /\ phase = "up"
    /\ lastOp.op = "deploy"
    /\ lastOp.sid = "local"
    /\ lastOp.status = 503
    /\ default_client = None
    /\ DOMAIN docker_clients # {}
    /\ notifications # << >>

\* C14: whenever the engine answers a snapshot, get_container_stats answers
\* 200 with a result, whichever documents and fields the snapshot lacks.
C14_NormalizerNeverRaises ==
    (lastOp.op = "stats" /\ lastOp.arg # << >>)
        => (lastOp.status = 200 /\ lastOp.body # << >>)

\* The current or the previous snapshot lacks its CPU document.
LacksCpu(stats) ==
    \/ ~Key(stats, "cpu_stats")
    \/ ~Key(stats, "precpu_stats")
    \/ ~Key(stats["cpu_stats"], "cpu_usage")
    \/ ~Key(stats["precpu_stats"], "cpu_usage")

\* Both snapshots carry the system counter.
HasSystemDelta(stats) ==
    /\ Key(stats, "cpu_stats") /\ Key(stats["cpu_stats"], "system_cpu_usage")
    /\ Key(stats, "precpu_stats") /\ Key(stats["precpu_stats"], "system_cpu_usage")

\* C15: cpu_percent is 0 when a CPU document is lacking and when the system
\* delta is <= 0; it is non-zero only when both CPU documents exist and the
\* system delta is > 0.
C15_CpuPercentZero ==
    (lastOp.op = "stats" /\ lastOp.arg # << >>)
        => LET stats == lastOp.arg[1]
           IN /\ (LacksCpu(stats)
                  \/ (HasSystemDelta(stats) /\ system_delta(stats) <= 0))
                    => (lastOp.status = 200 /\ lastOp.body.cpu_percent = 0)
              /\ (lastOp.status = 200 /\ lastOp.body.cpu_percent # 0)
                    => (~LacksCpu(stats) /\ HasSystemDelta(stats)
                        /\ system_delta(stats) > 0)

RECURSIVE BlkioTotal(_, _)
\* The sum of 'value' over the entries of kind op.
BlkioTotal(entries, op) ==
    IF entries = << >> THEN 0
    ELSE (IF Head(entries).op = op THEN Head(entries).value ELSE 0)
         + BlkioTotal(Tail(entries), op)

BlkioEntries(stats) ==
    IF Key(stats, "blkio_stats")
       /\ Key(stats["blkio_stats"], "io_service_bytes_recursive")
    THEN stats["blkio_stats"]["io_service_bytes_recursive"]
    ELSE << >>

\* C16: the stats result holds, beside its CPU, memory and network fields,
\* a read total and a write total: the sums of 'value' over the block-I/O
\* entries of kind Read and of kind Write, 0 when there are none.
C16_BlockIoTotals ==
    (lastOp.op = "stats" /\ lastOp.status = 200)
        => LET stats == lastOp.arg[1]
               more == DOMAIN lastOp.body \
                         {"server_id", "cpu_percent", "memory_usage", "memory_limit",
                          "memory_percent", "network_rx", "network_tx"}
           IN \E r \in more : \E w \in more \ {r} :
                 /\ lastOp.body[r] = BlkioTotal(BlkioEntries(stats), "Read")
                 /\ lastOp.body[w] = BlkioTotal(BlkioEntries(stats), "Write")

RECURSIVE RecordCount(_)
\* The sum over images of max(1, number of tags).
RecordCount(images) ==
    IF images = << >> THEN 0
    ELSE (IF Len(Head(images).tags) > 1 THEN Len(Head(images).tags) ELSE 1)
         + RecordCount(Tail(images))

\* C17: a successful image listing holds one record per tag of each image
\* and one record tagged '<none>:<none>' for each image without tags; the
\* number of records is the sum over images of max(1, number of tags).
C17_OneRecordPerTag ==
    (lastOp.op = "images" /\ lastOp.status = 200)
        => LET images == lastOp.arg[1]
               records == lastOp.body
               Of(id, tag) == {r \in DOMAIN records :
                                 records[r].id = id /\ records[r].tag = tag}
           IN /\ Len(records) = RecordCount(images)
              /\ \A i \in DOMAIN images :
                    IF images[i].tags = << >>
                    THEN Cardinality(Of(images[i].id, Sentinel)) = 1
                    ELSE \A t \in DOMAIN images[i].tags :
                            Cardinality(Of(images[i].id, images[i].tags[t])) = 1

C17_Witness ==
    /\ lastOp.op = "images" /\ lastOp.status = 200
    /\ \E i, j \in DOMAIN lastOp.arg[1] :
          /\ lastOp.arg[1][i].tags = << >>
          /\ Len(lastOp.arg[1][j].tags) = 2
    /\ Len(lastOp.body) = 3

\* C18: the records of a container or image listing carry the id of the
\* engine that produced them: the listing was read from the connection the
\* table holds under that id.
C18_RecordsFromTaggedEngine ==
    [][(lastOp'.op \in {"containers", "images"} /\ lastOp'.status = 200)
          => \A r \in DOMAIN lastOp'.body :
                /\ lastOp'.body[r].server_id \in DOMAIN docker_clients
                /\ lastOp'.calls[1][1] = docker_clients[lastOp'.body[r].server_id].n]_vars

\* The request reached the registry, which answered a status other than
\* 200 or did not answer.
UpstreamFailed(op) ==
    /\ op.arg # << >>
    /\ op.arg[1].kind = "raise" \/ op.arg[1].status_code # 200

\* C19 as stated: when the registry fails, both get_image_tags and
\* check_image_updates answer a normal response with an empty tag list and
\* an error annotation.
C19_BothEndpointsDegrade ==
    (lastOp.op \in {"tags", "updates"} /\ UpstreamFailed(lastOp))
        => /\ lastOp.status = 200
           /\ lastOp.body # << >>
           /\ "error" \in DOMAIN lastOp.body
           /\ \/ lastOp.op = "tags" /\ lastOp.body.tags = << >>
              \/ lastOp.op = "updates" /\ lastOp.body.available_tags = << >>

\* C19, amended: when the registry fails, check_image_updates answers a
\* normal response with an empty tag list, has_updates false and an error
\* annotation; get_image_tags answers an error: the registry's status for a
\* non-200 answer, 500 when the request itself failed.
C19_UpdateCheckDegrades ==
    UpstreamFailed(lastOp)
        => /\ lastOp.op = "updates"
                => /\ lastOp.status = 200
                   /\ lastOp.body # << >>
                   /\ "error" \in DOMAIN lastOp.body
                   /\ lastOp.body.available_tags = << >>
                   /\ ~lastOp.body.has_updates
           /\ lastOp.op = "tags"
                => /\ lastOp.status = IF lastOp.arg[1].kind = "raise" THEN 500
                                      ELSE lastOp.arg[1].status_code
                   /\ lastOp.body = << >>

C19_Witness ==
    /\ lastOp.op = "updates"
    /\ lastOp.arg # << >>
    /\ lastOp.arg[1].kind = "answer"
    /\ lastOp.arg[1].status_code = 429
    /\ lastOp.status = 200
    /\ lastOp.body.available_tags = << >>

\* C20: the server listing holds exactly one entry with id 'local', which
\* is the synthesised 'Local Server' in first place when no descriptor with
\* that id is persisted, and the 'connected' flag of each entry tells whether
\* its id has an entry in the connection table.
C20_ListingHasOneLocal ==
    [][(lastOp'.op = "servers" /\ lastOp'.status = 200)
          => LET listed == lastOp'.body
             IN /\ Cardinality({i \in DOMAIN listed : listed[i].id = "local"}) = 1
                /\ "local" \notin DOMAIN servers
                     => /\ listed[1].id = "local"
                        /\ listed[1].name = "Local Server"
                /\ \A i \in DOMAIN listed :
                      listed[i].connected <=> listed[i].id \in DOMAIN docker_clients
                /\ {listed[i].id : i \in DOMAIN listed} = DOMAIN servers \cup {"local"}]_vars

C20_Witness ==
    /\ lastOp.op = "servers" /\ lastOp.status = 200
    /\ "local" \notin DOMAIN servers
    /\ lastOp.body[1].id = "local" /\ lastOp.body[1].connected
    /\ \E i \in DOMAIN lastOp.body : ~lastOp.body[i].connected
    /\ \E i \in DOMAIN lastOp.body : i > 1 /\ lastOp.body[i].connected

\* The connections the call recorded in op opened and probed.
Opened(op) == {op.calls[c][1] : c \in DOMAIN op.calls}

\* C21: of two add_docker_server calls for the same id, the first of which
\* found the id unregistered, at most one is answered 200; a descriptor is
\* persisted for the id when one is; the table then holds the connection
\* the successful call opened; and no connection either call opened is left
\* open outside the table.
C21_AddsSerialized ==
    [][(lastOp.op = "add" /\ lastOp.fresh
        /\ lastOp'.op = "add" /\ lastOp'.sid = lastOp.sid)
          => LET id == lastOp.sid
             IN /\ ~(lastOp.status = 200 /\ lastOp'.status = 200)
                /\ (lastOp.status = 200 \/ lastOp'.status = 200)
                     => /\ id \in DOMAIN servers'
                        /\ id \in DOMAIN docker_clients'
                /\ lastOp.status = 200
                     => Opened(lastOp) = {docker_clients'[id].n}
                /\ lastOp'.status = 200
                     => Opened(lastOp') = {docker_clients'[id].n}
                /\ \A n \in Opened(lastOp) \cup Opened(lastOp') :
                      \/ n \in DOMAIN closes' /\ closes'[n] > 0
                      \/ \E s \in DOMAIN docker_clients' :
                            docker_clients'[s].n = n]_vars

\* C22: every non-local id of the connection table has a persisted
\* descriptor, and an add_docker_server call that is not answered 200
\* leaves the connection table as it was.
C22_TableWithinDescriptors ==
    [][/\ \A id \in DOMAIN docker_clients' :
             id # "local" => id \in DOMAIN servers'
       /\ (lastOp'.op = "add" /\ lastOp'.status # 200)
             => docker_clients' = docker_clients]_vars

\* C23: a startup whose local probe fails loads and probes no remote
\* descriptor and leaves the connection table empty; afterwards the table
\* stays empty until an add_docker_server call is answered 200.
C23_NoLocalNoRemotes ==
    [][/\ (lastOp'.op = "startup" /\ "local" \in lastOp'.failed /\ phase = "new")
             => /\ docker_clients' = Empty
                /\ lastOp'.probed = {}
                /\ lastOp'.failed = {"local"}
       /\ (phase = "up" /\ default_client = None
           /\ docker_clients = Empty /\ docker_clients' # Empty)
             => (lastOp'.op = "add" /\ lastOp'.status = 200)]_vars

\* C24: a removal answered 200 closes the connection of its id and leaves
\* the id in neither the table nor the descriptors; while serving, no
\* connection of the table is closed; after shutdown every connection of
\* the table, and every connection ever registered, has been closed exactly
\* once.
C24_ClosedExactlyOnce ==
    [][/\ (lastOp'.op = "remove" /\ lastOp'.status = 200 /\ phase = "up"
           /\ lastOp' # lastOp)
             => /\ lastOp'.sid \notin DOMAIN docker_clients'
                /\ lastOp'.sid \notin DOMAIN servers'
                /\ lastOp'.sid \in DOMAIN docker_clients
                     => /\ docker_clients[lastOp'.sid].n \in DOMAIN closes'
                        /\ closes'[docker_clients[lastOp'.sid].n] = 1
       /\ phase' = "up"
             => \A s \in DOMAIN docker_clients' :
                   docker_clients'[s].n \notin DOMAIN closes'
       /\ phase' = "stopped"
             => \A n \in 1..nextConn' : n \in DOMAIN closes' /\ closes'[n] = 1]_vars

====
